---- MODULE Spec2Model ----
(***************************************************************************)
(* NeoMentor segment-chained media pipeline (backend/core/agents_vertex.py)*)
(*                                                                         *)
(* One pipeline run: NeoMentorPipeline.process_request drives              *)
(*   generate_video_and_audio_segments  (audio, video, last-frame chain)   *)
(*   merge_final_video                  (probe, combine, assemble)         *)
(*   handle_pipeline_completion         (status mapping)                   *)
(* and the /process handler of backend/main.py collects the session files. *)
(* SpecRuns puts two such requests side by side on the shared directory.   *)
(*                                                                         *)
(* Files are named by kind and 1-based segment number, as the code names   *)
(* them (video_segment_<sid>_<i+1>.mp4, combined_segment_<i+1>.mp4, ...).  *)
(* Durations are whole time units; int(a / v) of the code is a \div v.     *)
(***************************************************************************)
EXTENDS Integers, Sequences, FiniteSets, TLC

\* ---------------------------------------------------------------- bounds
MaxSegs == 3        \* most script segments returned by the research stage
MaxDur  == 3        \* longest clip / narration, in time units
MaxLost == 2        \* most segment files removed from disk before the merge
MaxWait == 4        \* largest max_wait_time handed to wait_for_completion
MaxInterval == 2    \* largest check_interval handed to wait_for_completion
MaxLatency == 2     \* longest a single status request takes

\* ---------------------------------------------------------------- state
VARIABLES
    pc,                       \* position of the run inside process_request
    nSegs,                    \* len(segments)
    i,                        \* loop index of the chain (1-based: i+1 of the code)
    audio_results,            \* list of audio paths (segment numbers)
    video_results,            \* list of video paths (segment numbers)
    current_reference_image,  \* 0 = uploaded image, j = last_frame_segment_<j>.jpg
    disk,                     \* files that exist: <<kind, number>>
    audioCalls,               \* segments for which clone_voice was invoked
    videoRef,                 \* segment -> reference image handed to video generation (-1: not invoked)
    extractCalls,             \* segments for which extract_last_frame was invoked
    extractOk,                \* segments for which extract_last_frame returned True
    research_data,            \* result of the formatter and research stages
    media_data,               \* result of generate_video_and_audio_segments
    lost,                     \* number of segment files removed before the merge
    valid_video_segments,     \* merge_final_video: filtered video list
    valid_audio_segments,     \* merge_final_video: filtered audio list
    k,                        \* loop index of the combine loop (1-based)
    combined_segments_paths,  \* list of combined clips (numbers)
    last,                     \* the combine step just executed
    combineCalls,             \* number of per-segment ffmpeg combine commands run
    concatCalls,              \* number of ffmpeg concat commands run
    copyCalls,                \* number of single-segment copies to the final output
    video_list,               \* contents of video_list.txt handed to the concat step
    final_result,             \* result of merge_final_video
    result,                   \* result of NeoMentorPipeline.process_request
    generated_files,          \* /process handler: files collected for the session
    wait_pc,                  \* wait_for_completion: position of the call
    max_wait_time,            \* wait_for_completion: parameter
    check_interval,           \* wait_for_completion: parameter
    elapsed,                  \* wait_for_completion: time.time() - start_time
    poll_started_at,          \* wait_for_completion: elapsed at each status request
    responses,                \* wait_for_completion: status responses received
    active_connections,       \* ConnectionManager: session id -> registered websocket
    ws_pc,                    \* position of each websocket_endpoint call
    ws_session,               \* session id of each websocket_endpoint call
    sending,                  \* send_log suspended in send_text: session id and websocket
    sends_done                \* number of send_log calls that have returned

waitVars == << wait_pc, max_wait_time, check_interval, elapsed, poll_started_at,
              responses >>

connVars == << active_connections, ws_pc, ws_session, sending, sends_done >>

vars == << pc, nSegs, i, audio_results, video_results, current_reference_image,
           disk, audioCalls, videoRef, extractCalls, extractOk, research_data,
           media_data, lost, valid_video_segments, valid_audio_segments, k,
           combined_segments_paths, last, combineCalls, concatCalls, copyCalls,
           video_list, final_result, result, generated_files, waitVars, connVars, connVars >>

chainVars == << i, audio_results, video_results, current_reference_image,
                audioCalls, videoRef, extractCalls, extractOk >>

mergeVars == << valid_video_segments, valid_audio_segments, k,
                combined_segments_paths, last, combineCalls, concatCalls,
                copyCalls, video_list >>

\* ---------------------------------------------------------------- helpers
Min(a, b) == IF a <= b THEN a ELSE b
Max(a, b) == IF a >= b THEN a ELSE b

RECURSIVE SelectExisting(_, _, _)
\* [v for v in video_segments if ... os.path.exists(v)]
SelectExisting(list, kind, files) ==
    IF list = << >> THEN << >>
    ELSE IF << kind, Head(list) >> \in files
         THEN << Head(list) >> \o SelectExisting(Tail(list), kind, files)
         ELSE SelectExisting(Tail(list), kind, files)

NoResult == [status |-> "none", message |-> "none", seg |-> 0]
NoFinal  == [status |-> "none", message |-> "none", final_video_path |-> "none",
             segments_merged |-> 0]
NoCmd    == [branch |-> "none", loop |-> 0, vcodec |-> "none", t |-> 0,
             shortest |-> FALSE]
NoLast   == [video |-> 0, audio |-> 0, path |-> 0, cmd |-> NoCmd,
             audio_duration |-> -1, video_duration |-> -1,
             vd |-> 0, ad |-> 0, outcome |-> "none", dur |-> 0]
NoOutcome == [success |-> FALSE, tag |-> "none", video_path |-> "none",
              suggestion |-> "none"]

Sockets == {"w1", "w2", "w3"}

NoSocket == "none"

NoSend == [sid |-> "none", ws |-> NoSocket]

\* ConnectionManager.__init__ with no websocket_endpoint call followed.
ConnIdle ==
    /\ active_connections = << >>
    /\ ws_pc = << >>
    /\ ws_session = << >>
    /\ sending = NoSend
    /\ sends_done = 0

\* No wait_for_completion call is being followed.
WaitIdle ==
    /\ wait_pc = "idle"
    /\ max_wait_time = 0
    /\ check_interval = 0
    /\ elapsed = 0
    /\ poll_started_at = << >>
    /\ responses = << >>

\* ---------------------------------------------------------------- Init
Init ==
    /\ pc = "start"
    /\ nSegs \in 0 .. MaxSegs
    /\ i = 1
    /\ audio_results = << >>
    /\ video_results = << >>
    /\ current_reference_image = 0
    /\ disk = {}
    /\ audioCalls = {}
    /\ videoRef = [j \in 1 .. MaxSegs |-> -1]
    /\ extractCalls = {}
    /\ extractOk = {}
    /\ research_data = NoResult
    /\ media_data = NoResult
    /\ lost = 0
    /\ valid_video_segments = << >>
    /\ valid_audio_segments = << >>
    /\ k = 1
    /\ combined_segments_paths = << >>
    /\ last = NoLast
    /\ combineCalls = 0
    /\ concatCalls = 0
    /\ copyCalls = 0
    /\ video_list = << >>
    /\ final_result = NoFinal
    /\ result = NoOutcome
    /\ generated_files = {}
    /\ WaitIdle
    /\ ConnIdle

ErrorResult(msg, seg) == [status |-> "error", message |-> msg, seg |-> seg]

\* ------------------------------------------- NeoMentorPipeline.process_request
PreflightOutcomes == {"ok", "missing_uploads", "image_not_found", "audio_not_found"}
\* The formatter and research stages: segments, one of their two error
\* results, or an exception escaping the formatter (caught by process_request).
ResearchOutcomes  == {"success", "topic_required", "content_failed", "raise"}

\* Upload validation, then the formatter and research stages.
process_request_begin ==
    /\ pc = "start"
    /\ \E pre \in PreflightOutcomes, res \in ResearchOutcomes :
          IF pre # "ok"
          THEN /\ result' = [success |-> FALSE, tag |-> pre, video_path |-> "none",
                             suggestion |-> IF pre = "missing_uploads"
                                            THEN "upload_both" ELSE "re_upload"]
               /\ pc' = "done"
               /\ UNCHANGED research_data
          ELSE IF res = "raise"
          THEN /\ result' = [success |-> FALSE, tag |-> "pipeline_failed",
                             video_path |-> "none", suggestion |-> "check_inputs"]
               /\ pc' = "done"
               /\ UNCHANGED research_data
          ELSE /\ research_data' = IF res = "success"
                                   THEN [status |-> "success", message |-> "ok", seg |-> 0]
                                   ELSE ErrorResult(res, 0)
               /\ pc' = "chain_start"
               /\ UNCHANGED result
    /\ UNCHANGED << nSegs, generated_files, waitVars, connVars, chainVars, disk, media_data, lost, mergeVars, final_result >>

\* ------------------------------------------- generate_video_and_audio_segments
ChainPreflight == {"ok", "no_uploaded_image", "no_uploaded_audio",
                   "no_video_generation", "no_voice_cloning"}

ChainSuccess == [status |-> "success", message |-> "ok", seg |-> 0]

\* generate_video_and_audio_segments_begin without the status check: the
\* missing "segments" key raises and the outer handler answers with its own error.
generate_video_and_audio_segments_begin_NoStatusCheck ==
    /\ pc = "chain_start"
    /\ IF research_data.status = "error"
       THEN /\ media_data' = ErrorResult("chain_error", 0)
            /\ pc' = "merge_start"
       ELSE \E pre \in ChainPreflight :
               IF pre # "ok"
               THEN /\ media_data' = ErrorResult(pre, 0)
                    /\ pc' = "merge_start"
               ELSE IF nSegs = 0
                    THEN /\ media_data' = ChainSuccess
                         /\ pc' = "merge_start"
                    ELSE /\ pc' = "audio"
                         /\ UNCHANGED media_data
    /\ UNCHANGED << nSegs, generated_files, waitVars, connVars, chainVars, disk, research_data,
                    lost, mergeVars, final_result, result >>

\* generate_video_and_audio_segments_begin with the two availability checks
\* logging their error without returning.
generate_video_and_audio_segments_begin_NoAvailabilityReturn ==
    /\ pc = "chain_start"
    /\ IF research_data.status = "error"
       THEN /\ media_data' = research_data
            /\ pc' = "merge_start"
       ELSE \E pre \in ChainPreflight :
               IF pre \in {"no_uploaded_image", "no_uploaded_audio"}
               THEN /\ media_data' = ErrorResult(pre, 0)
                    /\ pc' = "merge_start"
               ELSE IF nSegs = 0
                    THEN /\ media_data' = ChainSuccess
                         /\ pc' = "merge_start"
                    ELSE /\ pc' = "audio"
                         /\ media_data' = IF pre = "ok" THEN media_data
                                          ELSE ErrorResult(pre, 0)
    /\ UNCHANGED << nSegs, generated_files, waitVars, connVars, chainVars, disk, research_data, lost, mergeVars,
                    final_result, result >>

\* Entry of the function up to the first loop iteration.
generate_video_and_audio_segments_begin ==
    /\ pc = "chain_start"
    /\ IF research_data.status = "error"
       THEN /\ media_data' = research_data
            /\ pc' = "merge_start"
       ELSE \E pre \in ChainPreflight :
               IF pre # "ok"
               THEN /\ media_data' = ErrorResult(pre, 0)
                    /\ pc' = "merge_start"
               ELSE IF nSegs = 0
                    THEN /\ media_data' = ChainSuccess
                         /\ pc' = "merge_start"
                    ELSE /\ pc' = "audio"
                         /\ UNCHANGED media_data
    /\ UNCHANGED << nSegs, generated_files, waitVars, connVars, chainVars, disk, research_data, lost, mergeVars,
                    final_result, result >>

\* What a generation collaborator can hand back: a path whose file exists
\* ("ok"), a path with no file behind it ("missing": speak() returns a
\* placeholder path after an internal error), nothing ("none"), or an exception.
AudioOutcomes == {"ok", "none", "missing", "raise"}

ReturnsPath(out) == out \in {"ok", "missing"}
FileWritten(out) == out = "ok"

AudioPathValid_NoExistsCheck(out) == ReturnsPath(out)
\* audio_path and audio_path != "None" and os.path.exists(audio_path)
AudioPathValid(out) == ReturnsPath(out) /\ FileWritten(out)

\* clone_voice_step with the failure branch logging the error and going on
\* to the video generation instead of returning.
clone_voice_step_NoReturn ==
    /\ pc = "audio"
    /\ audioCalls' = audioCalls \cup {i}
    /\ \E out \in AudioOutcomes :
          /\ disk' = IF FileWritten(out) THEN disk \cup { << "audio", i >> } ELSE disk
          /\ audio_results' = IF out # "raise" /\ AudioPathValid(out)
                              THEN Append(audio_results, i) ELSE audio_results
    /\ pc' = "video"
    /\ UNCHANGED << nSegs, generated_files, waitVars, connVars, i, video_results,
                    current_reference_image, videoRef, extractCalls, extractOk,
                    research_data, media_data, lost, mergeVars, final_result, result >>

\* AUDIO GENERATION FIRST: clone_voice for segment i and the check of its path.
clone_voice_step ==
    /\ pc = "audio"
    /\ audioCalls' = audioCalls \cup {i}
    /\ \E out \in AudioOutcomes :
          /\ disk' = IF FileWritten(out) THEN disk \cup { << "audio", i >> } ELSE disk
          /\ IF out # "raise" /\ AudioPathValid(out)
             THEN /\ audio_results' = Append(audio_results, i)
                  /\ pc' = "video"
                  /\ UNCHANGED media_data
             ELSE /\ media_data' = ErrorResult(IF out = "raise" THEN "audio_error"
                                                                ELSE "audio_failed", i)
                  /\ pc' = "merge_start"
                  /\ UNCHANGED audio_results
    /\ UNCHANGED << nSegs, generated_files, waitVars, connVars, i, video_results, current_reference_image, videoRef,
                    extractCalls, extractOk, research_data, lost, mergeVars,
                    final_result, result >>

ReferenceFor_AlwaysUploaded(seg, cur, files) == 0
\* The image handed to the video generator for segment seg.
ReferenceFor(seg, cur, files) ==
    IF seg = 1 THEN 0
    ELSE IF cur = 0 \/ << "frame", cur >> \in files THEN cur
    ELSE 0

VideoOutcomes == {"ok", "none", "missing", "raise"}

\* video_path and os.path.exists(video_path)
VideoPathValid(out) == ReturnsPath(out) /\ FileWritten(out)

\* generate_video_step with the failure branch logging the error and going on
\* to the next segment instead of returning.
generate_video_step_NoReturn ==
    /\ pc = "video"
    /\ videoRef' = [videoRef EXCEPT ![i] = ReferenceFor(i, current_reference_image, disk)]
    /\ \E out \in VideoOutcomes :
          /\ disk' = IF FileWritten(out) THEN disk \cup { << "video", i >> } ELSE disk
          /\ IF out # "raise" /\ VideoPathValid(out)
             THEN /\ video_results' = Append(video_results, i)
                  /\ i' = i
                  /\ IF i < nSegs
                     THEN /\ pc' = "extract"
                          /\ UNCHANGED media_data
                     ELSE /\ pc' = "merge_start"
                          /\ media_data' = ChainSuccess
             ELSE /\ media_data' = ErrorResult(IF out = "raise" THEN "video_error"
                                                                ELSE "video_failed", i)
                  /\ IF i < nSegs
                     THEN /\ pc' = "audio"
                          /\ i' = i + 1
                     ELSE /\ pc' = "merge_start"
                          /\ i' = i
                  /\ UNCHANGED video_results
    /\ UNCHANGED << nSegs, generated_files, waitVars, connVars, audio_results, current_reference_image, audioCalls,
                    extractCalls, extractOk, research_data, lost, mergeVars,
                    final_result, result >>

FrameWanted_EverySegment(seg, n) == seg <= n
\* if i < len(segments) - 1 (seg is i + 1 of the code)
FrameWanted(seg, n) == seg < n

\* VIDEO GENERATION for segment i and the check of its path.
generate_video_step ==
    /\ pc = "video"
    /\ videoRef' = [videoRef EXCEPT ![i] = ReferenceFor(i, current_reference_image, disk)]
    /\ \E out \in VideoOutcomes :
          /\ disk' = IF FileWritten(out) THEN disk \cup { << "video", i >> } ELSE disk
          /\ IF out # "raise" /\ VideoPathValid(out)
             THEN /\ video_results' = Append(video_results, i)
                  /\ IF FrameWanted(i, nSegs)
                     THEN /\ pc' = "extract"
                          /\ UNCHANGED media_data
                     ELSE /\ pc' = "merge_start"
                          /\ media_data' = ChainSuccess
             ELSE /\ media_data' = ErrorResult(IF out = "raise" THEN "video_error"
                                                                ELSE "video_failed", i)
                  /\ pc' = "merge_start"
                  /\ UNCHANGED video_results
    /\ UNCHANGED << nSegs, generated_files, waitVars, connVars, i, audio_results, current_reference_image, audioCalls,
                    extractCalls, extractOk, research_data, lost, mergeVars,
                    final_result, result >>

ExtractOutcomes == {"ok", "nonzero", "no_file", "raise"}

\* extract_last_frame: True only for exit code 0 with the image on disk.
extract_last_frame(out) == out = "ok"

NextReference_ResetOnFailure(cur, seg, extracted) == IF extracted THEN seg ELSE 0
\* if extract_last_frame(...): current_reference_image = frame_filename
NextReference(cur, seg, extracted) == IF extracted THEN seg ELSE cur

\* Extract last frame for next iteration, then the loop moves to segment i+1.
extract_last_frame_step ==
    /\ pc = "extract"
    /\ extractCalls' = extractCalls \cup {i}
    /\ \E out \in ExtractOutcomes :
          /\ current_reference_image' =
                 NextReference(current_reference_image, i, extract_last_frame(out))
          /\ IF extract_last_frame(out)
             THEN /\ disk' = disk \cup { << "frame", i >> }
                  /\ extractOk' = extractOk \cup {i}
             ELSE UNCHANGED << disk, extractOk >>
    /\ i' = i + 1
    /\ pc' = "audio"
    /\ UNCHANGED << nSegs, generated_files, waitVars, connVars, audio_results, video_results, audioCalls, videoRef,
                    research_data, media_data, lost, mergeVars, final_result, result >>

\* ------------------------------------------------------------ merge_final_video
\* A segment file disappears from disk between generation and merge (the
\* merge re-checks os.path.exists for every path it was handed).
external_remove ==
    /\ pc = "merge_start"
    /\ media_data.status = "success"
    /\ lost < MaxLost
    /\ \E f \in disk :
          /\ f[1] \in {"video", "audio"}
          /\ disk' = disk \ {f}
    /\ lost' = lost + 1
    /\ UNCHANGED << pc, nSegs, generated_files, waitVars, connVars, chainVars, research_data, media_data, mergeVars,
                    final_result, result >>

\* The filter, the two checks and the loop entry of merge_final_video.
FilterAndEnter ==
    LET vv == SelectExisting(video_results, "video", disk)
        va == SelectExisting(audio_results, "audio", disk)
    IN  /\ valid_video_segments' = vv
        /\ valid_audio_segments' = va
        /\ IF vv = << >> /\ va = << >>
           THEN /\ final_result' = ErrorResult("no_valid_media", 0)
                /\ pc' = "report"
           ELSE IF Len(vv) # Len(va)
           THEN /\ final_result' = ErrorResult("mismatch", 0)
                /\ pc' = "report"
           ELSE /\ pc' = "combine"
                /\ UNCHANGED final_result

MergeBeginFrame ==
    /\ k' = 1
    /\ UNCHANGED << nSegs, generated_files, waitVars, connVars, chainVars, disk, research_data, media_data, lost,
                    combined_segments_paths, last, combineCalls, concatCalls,
                    copyCalls, video_list, result >>

\* merge_final_video_begin without the status check: whatever the chain
\* left on disk is filtered and combined.
merge_final_video_begin_NoStatusCheck ==
    /\ pc = "merge_start"
    /\ FilterAndEnter
    /\ MergeBeginFrame

\* merge_final_video_begin answering a chain error with an error of its own.
merge_final_video_begin_OwnError ==
    /\ pc = "merge_start"
    /\ IF media_data.status = "error"
       THEN /\ final_result' = ErrorResult("no_valid_media", 0)
            /\ pc' = "report"
            /\ UNCHANGED << valid_video_segments, valid_audio_segments >>
       ELSE FilterAndEnter
    /\ MergeBeginFrame

\* Entry of the function up to the combine loop.
merge_final_video_begin ==
    /\ pc = "merge_start"
    /\ IF media_data.status = "error"
       THEN /\ final_result' = media_data
            /\ pc' = "report"
            /\ UNCHANGED << valid_video_segments, valid_audio_segments >>
       ELSE FilterAndEnter
    /\ MergeBeginFrame

ProbeOutcomes == {"ok", "nonzero", "raise"}

Measured_SentinelHigh(probe, duration) == IF probe = "ok" THEN duration ELSE MaxDur + 1
\* float(stdout) if returncode == 0 else 0
Measured(probe, duration) == IF probe = "ok" THEN duration ELSE 0

LoopCount_Floor(audio_duration, video_duration) == audio_duration \div video_duration
LoopCount_OneShort(audio_duration, video_duration) ==
    (audio_duration \div video_duration) - 1
\* int(audio_duration / video_duration) + 1
LoopCount(audio_duration, video_duration) == (audio_duration \div video_duration) + 1

DefaultCmd(branch) ==
    [branch |-> branch, loop |-> 0, vcodec |-> "copy", t |-> 0, shortest |-> TRUE]

StrategyCmd_NeverStretch(audio_duration, video_duration) == DefaultCmd("standard")
StrategyCmd_StretchOnEqual(audio_duration, video_duration) ==
    IF audio_duration >= video_duration /\ video_duration > 0
    THEN [branch |-> "stretch", loop |-> LoopCount(audio_duration, video_duration),
          vcodec |-> "libx264", t |-> audio_duration, shortest |-> TRUE]
    ELSE DefaultCmd("standard")
\* The strategy chosen from the two measured durations.
StrategyCmd(audio_duration, video_duration) ==
    IF audio_duration > video_duration /\ video_duration > 0
    THEN [branch |-> "stretch", loop |-> LoopCount(audio_duration, video_duration),
          vcodec |-> "libx264", t |-> audio_duration, shortest |-> TRUE]
    ELSE DefaultCmd("standard")

\* The ffmpeg command built for one segment.
SelectCmd(ffprobe, ap, vp, ad, vd) ==
    IF ~ ffprobe THEN DefaultCmd("no_ffprobe")
    ELSE IF ap = "raise" \/ vp = "raise" THEN DefaultCmd("fallback")
    ELSE StrategyCmd(Measured(ap, ad), Measured(vp, vd))

\* Duration of the file ffmpeg writes for cmd: -stream_loop n plays the video
\* n + 1 times, -shortest ends at the shorter stream, -t caps the output.
OutDuration(cmd, vd, ad) ==
    LET video_len == (cmd.loop + 1) * vd
        muxed     == IF cmd.shortest THEN Min(video_len, ad) ELSE Max(video_len, ad)
    IN  IF cmd.t > 0 THEN Min(muxed, cmd.t) ELSE muxed

\* What the measuring code can meet: no ffprobe on the PATH (nothing is
\* probed), the audio probe raising (the video probe is never run), or both
\* probes run.
ProbeScenarios ==
    { << FALSE, "ok", "ok" >>, << TRUE, "raise", "ok" >> }
    \cup { << TRUE, ap, vp >> : ap \in {"ok", "nonzero"}, vp \in ProbeOutcomes }

CombineOutcomes == {"ok", "nonzero", "no_file", "timeout", "raise"}

AfterCombine_BreakOnFailure(out, index, count) ==
    IF index = count \/ out # "ok" THEN "assemble" ELSE "combined"
\* Where the loop goes after one ffmpeg run: a failure is logged (continue)
\* and the loop ends only after the last pair.
AfterCombine(out, index, count) ==
    IF index = count THEN "assemble" ELSE "combined"

\* One iteration of the combine loop: probe, build the command, run ffmpeg.
combine_segment ==
    /\ pc = "combine"
    /\ k <= Len(valid_video_segments)
    /\ \E vd \in 1 .. MaxDur, ad \in 1 .. MaxDur, sc \in ProbeScenarios,
          out \in CombineOutcomes :
          LET ffprobe == sc[1]
              ap == sc[2]
              vp == sc[3]
              cmd == SelectCmd(ffprobe, ap, vp, ad, vd)
              measured == ffprobe /\ ap # "raise" /\ vp # "raise"
          IN  /\ last' = [video |-> valid_video_segments[k],
                          audio |-> valid_audio_segments[k],
                          path  |-> k,
                          cmd   |-> cmd,
                          audio_duration |-> IF measured THEN Measured(ap, ad) ELSE -1,
                          video_duration |-> IF measured THEN Measured(vp, vd) ELSE -1,
                          vd |-> vd, ad |-> ad, outcome |-> out,
                          dur |-> IF out = "ok" THEN OutDuration(cmd, vd, ad) ELSE 0]
              /\ IF out = "ok"
                 THEN /\ combined_segments_paths' = Append(combined_segments_paths, k)
                      /\ disk' = disk \cup { << "combined", k >> }
                 ELSE UNCHANGED << combined_segments_paths, disk >>
              /\ pc' = AfterCombine(out, k, Len(valid_video_segments))
    /\ combineCalls' = combineCalls + 1
    /\ UNCHANGED << nSegs, generated_files, waitVars, connVars, chainVars, research_data, media_data, lost,
                    valid_video_segments, valid_audio_segments, k, concatCalls,
                    copyCalls, video_list, final_result, result >>

\* The for statement takes the next (video, audio) pair.  The locals of the
\* finished iteration (cmd, the durations, the ffmpeg result) are rebound
\* before anything reads them again, so they are dropped here.
next_segment_pair ==
    /\ pc = "combined"
    /\ k' = k + 1
    /\ last' = NoLast
    /\ pc' = "combine"
    /\ UNCHANGED << nSegs, generated_files, waitVars, connVars, chainVars, disk, research_data, media_data, lost,
                    valid_video_segments, valid_audio_segments,
                    combined_segments_paths, combineCalls, concatCalls,
                    copyCalls, video_list, final_result, result >>

MergeSuccess(n) == [status |-> "success", message |-> "generated",
                    final_video_path |-> "final_neomentor_video", segments_merged |-> n]

AssembleOutcomes == {"ok", "nonzero", "raise"}

AssemblyBranch_CopyWhenEmpty(n) == IF n <= 1 THEN "copy" ELSE "concat"
AssemblyBranch_AlwaysConcat(n) == IF n = 0 THEN "none" ELSE "concat"
\* How the final output is produced from n combined clips.
AssemblyBranch(n) == IF n = 0 THEN "none" ELSE IF n = 1 THEN "copy" ELSE "concat"

RECURSIVE ListFile_Reversed(_)
ListFile_Reversed(paths) ==
    IF paths = << >> THEN << >>
    ELSE Append(ListFile_Reversed(Tail(paths)), Head(paths))
\* video_list.txt: one "file '<path>'" line per combined clip, in list order.
ListFile(paths) == [x \in 1 .. Len(paths) |-> paths[x]]

ConcatResult_IgnoreExitCode(out, n) ==
    IF out = "raise" THEN ErrorResult("merging_failed", 0) ELSE MergeSuccess(n)
\* What merge_final_video returns after the concat command: its exit code is
\* checked, an exception (the 180 s timeout included) reaches the outer handler.
ConcatResult(out, n) ==
    IF out = "ok" THEN MergeSuccess(n)
    ELSE ErrorResult(IF out = "nonzero" THEN "concat_failed" ELSE "merging_failed", 0)

\* After the loop: nothing combined, single-segment copy, or concatenation.
assemble_final ==
    /\ pc = "assemble"
    /\ \E out \in AssembleOutcomes :
          LET n == Len(combined_segments_paths)
              branch == AssemblyBranch(n)
          IN  IF branch = "none"
              THEN /\ out = "ok"
                   /\ final_result' = ErrorResult("none_combined", 0)
                   /\ UNCHANGED << disk, concatCalls, copyCalls, video_list >>
              ELSE IF branch = "copy"
              THEN /\ out # "nonzero"
                   /\ copyCalls' = copyCalls + 1
                   /\ IF out = "ok"
                      THEN /\ disk' = disk \cup { << "final", 0 >> }
                           /\ final_result' = MergeSuccess(n)
                      ELSE /\ final_result' = ErrorResult("merging_failed", 0)
                           /\ UNCHANGED disk
                   /\ UNCHANGED << concatCalls, video_list >>
              ELSE /\ video_list' = ListFile(combined_segments_paths)
                   /\ concatCalls' = concatCalls + 1
                   /\ disk' = disk \cup { << "list", 0 >> }
                                   \cup (IF out = "ok" THEN { << "final", 0 >> } ELSE {})
                   /\ final_result' = ConcatResult(out, n)
                   /\ UNCHANGED copyCalls
    /\ pc' = "report"
    /\ UNCHANGED << nSegs, generated_files, waitVars, connVars, chainVars, research_data, media_data, lost,
                    valid_video_segments, valid_audio_segments, k,
                    combined_segments_paths, last, combineCalls, result >>

\* ---------------------------------------------------- handle_pipeline_completion
handle_pipeline_completion_DefaultsOnly(data) ==
    IF data.status = "success"
    THEN [status |-> "completed", message |-> "completed",
          final_video |-> "final_neomentor_video",
          segments_merged |-> 0, suggestion |-> "none"]
    ELSE [status |-> "error", message |-> "unknown_error",
          final_video |-> "none", segments_merged |-> 0,
          suggestion |-> "check_inputs"]
handle_pipeline_completion_NoSuggestion(data) ==
    IF data.status = "success"
    THEN [status |-> "completed", message |-> "completed",
          final_video |-> data.final_video_path,
          segments_merged |-> data.segments_merged, suggestion |-> "none"]
    ELSE [status |-> "error", message |-> data.message,
          final_video |-> "none", segments_merged |-> 0, suggestion |-> "none"]
\* The status mapping: data.get(...) of the assembler's result.
handle_pipeline_completion(data) ==
    IF data.status = "success"
    THEN [status |-> "completed", message |-> "completed",
          final_video |-> data.final_video_path,
          segments_merged |-> data.segments_merged, suggestion |-> "none"]
    ELSE [status |-> "error", message |-> data.message,
          final_video |-> "none", segments_merged |-> 0,
          suggestion |-> "check_inputs"]

\* process_request_finish removing the run's files when the run failed.
process_request_finish_CleanupOnError ==
    /\ pc = "report"
    /\ LET completion == handle_pipeline_completion(final_result)
       IN  /\ result' = IF completion.status = "completed"
                         THEN [success |-> TRUE, tag |-> completion.message,
                               video_path |-> completion.final_video,
                               suggestion |-> "none"]
                         ELSE [success |-> FALSE, tag |-> completion.message,
                               video_path |-> "none",
                               suggestion |-> completion.suggestion]
           /\ disk' = IF completion.status = "completed" THEN disk ELSE {}
    /\ pc' = "done"
    /\ UNCHANGED << nSegs, generated_files, waitVars, connVars, chainVars, research_data, media_data, lost,
                    mergeVars, final_result >>

\* Handle completion and build the dictionary process_request returns.
process_request_finish ==
    /\ pc = "report"
    /\ LET completion == handle_pipeline_completion(final_result)
       IN  result' = IF completion.status = "completed"
                     THEN [success |-> TRUE, tag |-> completion.message,
                           video_path |-> completion.final_video,
                           suggestion |-> "none"]
                     ELSE [success |-> FALSE, tag |-> completion.message,
                           video_path |-> "none",
                           suggestion |-> completion.suggestion]
    /\ pc' = "done"
    /\ UNCHANGED << nSegs, generated_files, waitVars, connVars, chainVars, disk, research_data, media_data, lost,
                    mergeVars, final_result >>

\* --------------------------------------------------- /process handler (main.py)
\* session_dir = UPLOADS_DIR / session_id
SessionDir == "uploads/session_id"

\* The uploads the handler saved as image_<name> and audio_<name>.
UploadedFiles == { << "upload_image", 0 >>, << "upload_audio", 0 >> }

\* The directory a file is in: the cloned audio is written under the bare
\* file name, the generated videos and frames under generated_media.
DirOf(f) ==
    CASE f[1] \in {"upload_image", "upload_audio"} -> SessionDir
      [] f[1] = "audio"    -> "."
      [] f[1] = "combined" -> "generated_media/combined_segments"
      [] OTHER             -> "generated_media"

\* A file name matched by one of the glob patterns of collect_session_files.
GlobMatches(f) == f[1] \in {"video", "audio", "frame", "final", "served", "list"}

\* session_dir.glob(pattern) for every pattern: files of that one directory.
collect_session_files(session_dir, files) ==
    { f \in files : DirOf(f) = session_dir /\ GlobMatches(f) }

\* The handler after pipeline.process_request returned: collect the session's
\* files and, on success with the final video present, copy it to
\* neomentor_video_<session_id>.mp4 and add it to the collected files.
process_response ==
    /\ pc = "done"
    /\ LET collected == collect_session_files(SessionDir, disk \cup UploadedFiles)
       IN  IF result.success /\ << "final", 0 >> \in disk
           THEN /\ disk' = disk \cup { << "served", 0 >> }
                /\ generated_files' = collected \cup { << "served", 0 >> }
           ELSE /\ generated_files' = collected
                /\ UNCHANGED disk
    /\ pc' = "responded"
    /\ UNCHANGED << nSegs, waitVars, connVars, chainVars, research_data, media_data, lost,
                    mergeVars, final_result, result >>

\* ---------------------------------------------------------------- specification
Next ==
    \/ process_request_begin
    \/ generate_video_and_audio_segments_begin
    \/ clone_voice_step
    \/ generate_video_step
    \/ extract_last_frame_step
    \/ external_remove
    \/ merge_final_video_begin
    \/ combine_segment
    \/ next_segment_pair
    \/ assemble_final
    \/ process_request_finish
    \/ process_response

Spec == Init /\ [][Next]_vars

\* Every collaborator call (voice cloning, video generation, ffmpeg, ffprobe)
\* returns or raises, so the step that is waiting for it is eventually taken.
SpecFair == Init /\ [][Next]_vars /\ WF_vars(Next)

\* ------------------------------------------------------- two concurrent runs
\* Two /process requests with different session ids served by one event loop.
\* Here pc, nSegs, i, k and current_reference_image hold one value per run and
\* disk is the shared generated_media directory: the set of << path, run >>
\* with run having written path.  pipeline.process_request is a synchronous
\* call inside the async handler, so the pipeline steps of one run are not
\* interleaved with those of the other; the handler's awaits before and after
\* the call (manager.send_log, manager.send_progress) are.  Every collaborator call succeeds, except frame extraction.
Runs == {"sidA", "sidB"}

\* int(time.time()) as two calls can read it.
Seconds == {"t1", "t2"}

\* The path of each file the pipeline writes, as the code builds its name;
\* "" where the name carries no session id.
PathOf(kind, sid, n, t) ==
    CASE kind = "video"    -> << "generated_media/video_segment", sid, n >>
      [] kind = "audio"    -> << "audio_segment", sid, n >>
      [] kind = "frame"    -> << "generated_media/last_frame_segment", sid, n >>
      [] kind = "debug"    -> << "generated_media/debug_response.json", "", 0 >>
      [] kind = "debug_t"  -> << "generated_media/debug_response", t, 0 >>
      [] kind = "combined" -> << "generated_media/combined_segments/combined_segment", "", n >>
      [] kind = "list"     -> << "generated_media/video_list.txt", "", 0 >>
      [] kind = "final"    -> << "generated_media/final_neomentor_video.mp4", "", 0 >>
      [] kind = "served"   -> << "generated_media/neomentor_video", sid, 0 >>

Wrote(r, paths) == { << q, r >> : q \in paths }

runsIdle == << audio_results, video_results, audioCalls, videoRef, extractCalls,
               extractOk, research_data, media_data, lost, valid_video_segments,
               valid_audio_segments, combined_segments_paths, last, combineCalls,
               concatCalls, copyCalls, video_list, generated_files, waitVars,
               connVars >>

InPipeline(r) == pc[r] \in {"audio", "video", "extract", "combine", "assemble"}

InitRuns ==
    /\ pc = [r \in Runs |-> "start"]
    /\ nSegs \in [Runs -> 1 .. MaxSegs]
    /\ i = [r \in Runs |-> 1]
    /\ k = [r \in Runs |-> 1]
    /\ current_reference_image = [r \in Runs |-> 0]
    /\ disk = {}
    /\ audio_results = << >>
    /\ video_results = << >>
    /\ audioCalls = {}
    /\ videoRef = [j \in 1 .. MaxSegs |-> -1]
    /\ extractCalls = {}
    /\ extractOk = {}
    /\ research_data = NoResult
    /\ media_data = NoResult
    /\ lost = 0
    /\ valid_video_segments = << >>
    /\ valid_audio_segments = << >>
    /\ combined_segments_paths = << >>
    /\ last = NoLast
    /\ combineCalls = 0
    /\ concatCalls = 0
    /\ copyCalls = 0
    /\ video_list = << >>
    /\ final_result = "none"
    /\ result = [r \in Runs |-> "none"]
    /\ generated_files = {}
    /\ WaitIdle
    /\ ConnIdle

\* The handler of run r reaches result = pipeline.process_request(...).
runs_enter_pipeline(r) ==
    /\ pc[r] = "start"
    /\ \A o \in Runs : ~ InPipeline(o)
    /\ pc' = [pc EXCEPT ![r] = "audio"]
    /\ UNCHANGED << nSegs, i, k, current_reference_image, disk, runsIdle, final_result, result >>

runs_clone_voice(r) ==
    /\ pc[r] = "audio"
    /\ disk' = disk \cup Wrote(r, { PathOf("audio", r, i[r], "") })
    /\ pc' = [pc EXCEPT ![r] = "video"]
    /\ UNCHANGED << nSegs, i, k, current_reference_image, runsIdle, final_result, result >>

\* generate_video (segment 1, or no frame) or generate_video_with_image_data:
\* the response is saved to the debug file, then the video is saved from it.
runs_generate_video(r) ==
    /\ pc[r] = "video"
    /\ \E t \in Seconds :
          LET debug == IF i[r] = 1 \/ current_reference_image[r] = 0
                       THEN PathOf("debug", r, i[r], t)
                       ELSE PathOf("debug_t", r, i[r], t)
          IN  disk' = disk \cup Wrote(r, { debug, PathOf("video", r, i[r], t) })
    /\ pc' = [pc EXCEPT ![r] = IF i[r] < nSegs[r] THEN "extract" ELSE "combine"]
    /\ UNCHANGED << nSegs, i, k, current_reference_image, runsIdle, final_result, result >>

runs_extract_last_frame(r) ==
    /\ pc[r] = "extract"
    /\ \E out \in ExtractOutcomes :
          /\ current_reference_image' =
                 [current_reference_image EXCEPT
                     ![r] = NextReference(@, i[r], extract_last_frame(out))]
          /\ disk' = IF extract_last_frame(out)
                     THEN disk \cup Wrote(r, { PathOf("frame", r, i[r], "") })
                     ELSE disk
    /\ i' = [i EXCEPT ![r] = @ + 1]
    /\ pc' = [pc EXCEPT ![r] = "audio"]
    /\ UNCHANGED << nSegs, k, runsIdle, final_result, result >>

runs_combine_segment(r) ==
    /\ pc[r] = "combine"
    /\ disk' = disk \cup Wrote(r, { PathOf("combined", r, k[r], "") })
    /\ IF k[r] < nSegs[r]
       THEN /\ k' = [k EXCEPT ![r] = @ + 1]
            /\ UNCHANGED pc
       ELSE /\ pc' = [pc EXCEPT ![r] = "assemble"]
            /\ UNCHANGED k
    /\ UNCHANGED << nSegs, i, current_reference_image, runsIdle, final_result, result >>

\* Single-segment copy or list file and concatenation; the pipeline returns.
\* final_result names the run whose combined clips final_neomentor_video.mp4
\* now holds: the clips were all written during this uninterrupted call.
runs_assemble_final(r) ==
    /\ pc[r] = "assemble"
    /\ disk' = disk \cup Wrote(r, IF AssemblyBranch(nSegs[r]) = "copy"
                                  THEN { PathOf("final", r, 0, "") }
                                  ELSE { PathOf("list", r, 0, ""),
                                         PathOf("final", r, 0, "") })
    /\ final_result' = r
    /\ pc' = [pc EXCEPT ![r] = "returned"]
    /\ UNCHANGED << nSegs, i, k, current_reference_image, runsIdle, result >>

\* After its awaits the handler copies whatever final_neomentor_video.mp4 then
\* holds under the session's name; result[r] is the run whose clips r delivers.
runs_serve_video(r) ==
    /\ pc[r] = "returned"
    /\ disk' = disk \cup Wrote(r, { PathOf("served", r, 0, "") })
    /\ result' = [result EXCEPT ![r] = final_result]
    /\ pc' = [pc EXCEPT ![r] = "done"]
    /\ UNCHANGED << nSegs, i, k, current_reference_image, runsIdle, final_result >>

NextRuns ==
    \E r \in Runs :
        \/ runs_enter_pipeline(r)
        \/ runs_clone_voice(r)
        \/ runs_generate_video(r)
        \/ runs_extract_last_frame(r)
        \/ runs_combine_segment(r)
        \/ runs_assemble_final(r)
        \/ runs_serve_video(r)

SpecRuns == InitRuns /\ [][NextRuns]_vars

\* ------------------------------ GoogleVeo2VideoGenerator.wait_for_completion
\* One call of wait_for_completion followed on its own, with time in whole
\* units: each status request takes 0 .. MaxLatency, each sleep check_interval.
pipelineVars == << pc, nSegs, chainVars, disk, research_data, media_data, lost,
                   mergeVars, final_result, result, generated_files >>

\* What one status request can come to: operation still running, done,
\* state FAILED, or check_operation_status raising on a non-200 reply.
WaitResponses == {"pending", "done", "failed", "http_error"}

DeadlineOpen_Inclusive(t, limit) == t <= limit
\* while time.time() - start_time < max_wait_time
DeadlineOpen(t, limit) == t < limit

InitWait ==
    /\ pc = "idle"
    /\ nSegs = 0
    /\ i = 1
    /\ audio_results = << >>
    /\ video_results = << >>
    /\ current_reference_image = 0
    /\ disk = {}
    /\ audioCalls = {}
    /\ videoRef = [j \in 1 .. MaxSegs |-> -1]
    /\ extractCalls = {}
    /\ extractOk = {}
    /\ research_data = NoResult
    /\ media_data = NoResult
    /\ lost = 0
    /\ valid_video_segments = << >>
    /\ valid_audio_segments = << >>
    /\ k = 1
    /\ combined_segments_paths = << >>
    /\ last = NoLast
    /\ combineCalls = 0
    /\ concatCalls = 0
    /\ copyCalls = 0
    /\ video_list = << >>
    /\ final_result = NoFinal
    /\ result = NoOutcome
    /\ generated_files = {}
    /\ wait_pc = "guard"
    /\ max_wait_time \in 1 .. MaxWait
    /\ check_interval \in 1 .. MaxInterval
    /\ elapsed = 0
    /\ poll_started_at = << >>
    /\ responses = << >>
    /\ ConnIdle

\* The while condition: enter the body or fall through to the timeout raise.
wait_loop_guard ==
    /\ wait_pc = "guard"
    /\ IF DeadlineOpen(elapsed, max_wait_time)
       THEN /\ wait_pc' = "poll"
            /\ poll_started_at' = Append(poll_started_at, elapsed)
       ELSE /\ wait_pc' = "raised_timeout"
            /\ UNCHANGED poll_started_at
    /\ UNCHANGED << max_wait_time, check_interval, elapsed, responses, pipelineVars, connVars >>

\* status_response = self.check_operation_status(operation_name) and the two
\* tests on it: done first, then state FAILED.
check_operation_status ==
    /\ wait_pc = "poll"
    /\ \E latency \in 0 .. MaxLatency, resp \in WaitResponses :
          /\ elapsed' = elapsed + latency
          /\ responses' = IF resp = "http_error" THEN responses
                          ELSE Append(responses, resp)
          /\ wait_pc' = CASE resp = "done"       -> "returned"
                           [] resp = "failed"     -> "raised_failed"
                           [] resp = "http_error" -> "raised_status"
                           [] resp = "pending"    -> "sleep"
    /\ UNCHANGED << max_wait_time, check_interval, poll_started_at, pipelineVars, connVars >>

\* time.sleep(check_interval)
wait_sleep ==
    /\ wait_pc = "sleep"
    /\ elapsed' = elapsed + check_interval
    /\ wait_pc' = "guard"
    /\ UNCHANGED << max_wait_time, check_interval, poll_started_at, responses,
                    pipelineVars, connVars >>

NextWait ==
    \/ wait_loop_guard
    \/ check_operation_status
    \/ wait_sleep

\* The call is one sequential thread: whatever step is next is taken.
SpecWait == InitWait /\ [][NextWait]_vars /\ WF_vars(NextWait)

\* ------------------------------------- ConnectionManager, websocket_endpoint
\* The registry of websockets for real-time logs, followed on its own: three
\* websocket_endpoint calls for the session ids of Runs, and the send_log /
\* send_progress calls of the /process handlers (the two have the same shape).
MaxSends == 2

PipelineIdle ==
    /\ pc = "idle"
    /\ nSegs = 0
    /\ i = 1
    /\ audio_results = << >>
    /\ video_results = << >>
    /\ current_reference_image = 0
    /\ disk = {}
    /\ audioCalls = {}
    /\ videoRef = [j \in 1 .. MaxSegs |-> -1]
    /\ extractCalls = {}
    /\ extractOk = {}
    /\ research_data = NoResult
    /\ media_data = NoResult
    /\ lost = 0
    /\ valid_video_segments = << >>
    /\ valid_audio_segments = << >>
    /\ k = 1
    /\ combined_segments_paths = << >>
    /\ last = NoLast
    /\ combineCalls = 0
    /\ concatCalls = 0
    /\ copyCalls = 0
    /\ video_list = << >>
    /\ final_result = NoFinal
    /\ result = NoOutcome
    /\ generated_files = {}

\* manager = ConnectionManager(): no session id has an entry.
InitConn ==
    /\ PipelineIdle
    /\ WaitIdle
    /\ active_connections = [s \in Runs |-> NoSocket]
    /\ ws_pc = [w \in Sockets |-> "new"]
    /\ ws_session = [w \in Sockets |-> "none"]
    /\ sending = NoSend
    /\ sends_done = 0

\* if session_id in self.active_connections: del self.active_connections[...]
disconnect(conns, session_id) == [conns EXCEPT ![session_id] = NoSocket]

\* A client opens /ws/{session_id}: connect suspends in websocket.accept().
websocket_endpoint(w, session_id) ==
    /\ ws_pc[w] = "new"
    /\ ws_pc' = [ws_pc EXCEPT ![w] = "accepting"]
    /\ ws_session' = [ws_session EXCEPT ![w] = session_id]
    /\ UNCHANGED << active_connections, sending, sends_done, pipelineVars, waitVars >>

\* connect resumes: the websocket is stored under its session id and the
\* endpoint enters its receive_text loop.
connect(w) ==
    /\ ws_pc[w] = "accepting"
    /\ active_connections' = [active_connections EXCEPT ![ws_session[w]] = w]
    /\ ws_pc' = [ws_pc EXCEPT ![w] = "receiving"]
    /\ UNCHANGED << ws_session, sending, sends_done, pipelineVars, waitVars >>

\* receive_text raises WebSocketDisconnect: manager.disconnect(session_id).
websocket_disconnect(w) ==
    /\ ws_pc[w] = "receiving"
    /\ active_connections' = disconnect(active_connections, ws_session[w])
    /\ ws_pc' = [ws_pc EXCEPT ![w] = "closed"]
    /\ UNCHANGED << ws_session, sending, sends_done, pipelineVars, waitVars >>

\* send_log up to its await: nothing for a session id without an entry,
\* otherwise send_text is started on the websocket now registered.
send_log_begin(session_id) ==
    /\ sending = NoSend
    /\ sends_done < MaxSends
    /\ IF active_connections[session_id] # NoSocket
       THEN /\ sending' = [sid |-> session_id, ws |-> active_connections[session_id]]
            /\ UNCHANGED sends_done
       ELSE /\ sends_done' = sends_done + 1
            /\ UNCHANGED sending
    /\ UNCHANGED << active_connections, ws_pc, ws_session, pipelineVars, waitVars >>

\* send_text returns or raises (it raises on a websocket already closed);
\* the except branch calls self.disconnect(session_id).
send_log_end ==
    /\ sending # NoSend
    /\ \E ok \in IF ws_pc[sending.ws] = "closed" THEN {FALSE} ELSE BOOLEAN :
          active_connections' = IF ok THEN active_connections
                                ELSE disconnect(active_connections, sending.sid)
    /\ sending' = NoSend
    /\ sends_done' = sends_done + 1
    /\ UNCHANGED << ws_pc, ws_session, pipelineVars, waitVars >>

NextConn ==
    \/ \E w \in Sockets, session_id \in Runs : websocket_endpoint(w, session_id)
    \/ \E w \in Sockets : connect(w)
    \/ \E w \in Sockets : websocket_disconnect(w)
    \/ \E session_id \in Runs : send_log_begin(session_id)
    \/ send_log_end

SpecConn == InitConn /\ [][NextConn]_vars

\* ================================================================= claims
Range(list) == { list[x] : x \in DOMAIN list }

\* Segments for which the video generator was invoked.
videoCalls == { j \in 1 .. MaxSegs : videoRef[j] # -1 }

\* The chain returned an error for the generation of segment media_data.seg.
AudioFailed == media_data.status = "error"
                  /\ media_data.message \in {"audio_failed", "audio_error"}
VideoFailed == media_data.status = "error"
                  /\ media_data.message \in {"video_failed", "video_error"}
GenerationFailed == AudioFailed \/ VideoFailed
\* A combine step has run ffmpeg to completion and written its clip.
Combined == last.outcome = "ok"
\* Both probes ran and succeeded, so the code's two duration variables hold
\* the real lengths of the segment's tracks (the 0 sentinel is no measurement).
BothMeasured == last.audio_duration = last.ad /\ last.video_duration = last.vd

\* C1 (as stated): on every combine path the combined clip is never shorter
\* than the segment's audio track.
C1_NeverShorterOnEveryPath == Combined => last.dur >= last.ad

\* C1 (amended): whenever both durations were measured (ffprobe present, both
\* probes succeeded, video_duration > 0) the combined clip is never shorter
\* than the segment's audio track; only the unmeasured fallback mux can be.
C1_NeverShorterWhenMeasured ==
    (Combined /\ BothMeasured /\ last.video_duration > 0) => last.dur >= last.ad

C1_Witness ==
    /\ Combined /\ BothMeasured
    /\ last.ad > last.vd
    /\ last.cmd.branch = "stretch"
    /\ last.dur = last.ad

\* C2: measured audio_duration > video_duration > 0 selects loop-then-trim
\* (re-encode, stream_loop, -t audio_duration) and the clip written lasts
\* exactly audio_duration, the whole audio track.
C2_StretchToAudio ==
    (last.audio_duration > last.video_duration /\ last.video_duration > 0) =>
        /\ last.cmd.branch = "stretch"
        /\ last.cmd.vcodec = "libx264"
        /\ last.cmd.loop >= 1
        /\ last.cmd.t = last.audio_duration
        /\ Combined => (last.dur = last.audio_duration /\ last.dur = last.ad)

C2_Witness ==
    /\ Combined
    /\ last.audio_duration = 3 /\ last.video_duration = 2
    /\ last.cmd.branch = "stretch"
    /\ last.dur = 3

\* C3: measured audio_duration <= video_duration uses the standard mux (video
\* stream copied, -shortest, no -stream_loop, no -t) and the clip written lasts
\* as long as the audio.
C3_StandardMux ==
    (last.cmd.branch # "none" /\ BothMeasured
        /\ last.audio_duration <= last.video_duration) =>
        /\ last.cmd.branch = "standard"
        /\ last.cmd.vcodec = "copy"
        /\ last.cmd.loop = 0
        /\ last.cmd.t = 0
        /\ last.cmd.shortest
        /\ Combined => last.dur = last.ad

C3_Witness ==
    /\ Combined /\ BothMeasured
    /\ last.audio_duration < last.video_duration
    /\ last.cmd.branch = "standard"
    /\ last.dur = last.ad

\* C4: the video generator is invoked for segment j only in the step after the
\* audio generation of segment j returned a path that exists on disk, and a
\* segment whose audio generation failed never gets a video generation call.
C4_AudioBeforeVideo ==
    /\ [][ \A j \in 1 .. MaxSegs :
              (videoRef[j] = -1 /\ videoRef'[j] # -1) =>
                  /\ j = i
                  /\ j \in audioCalls
                  /\ audio_results # << >>
                  /\ audio_results[Len(audio_results)] = j
                  /\ << "audio", j >> \in disk
                  /\ media_data.status # "error" ]_vars
    /\ [](AudioFailed => media_data.seg \notin videoCalls)

C4_Witness ==
    /\ 1 \in videoCalls
    /\ AudioFailed /\ media_data.seg = 2
    /\ 2 \in audioCalls /\ 2 \notin videoCalls

\* The most recent frame extracted before segment j, 0 (the uploaded image)
\* when no earlier extraction succeeded.
RECURSIVE LatestFrame(_)
LatestFrame(j) ==
    IF j <= 1 THEN 0
    ELSE IF (j - 1) \in extractOk THEN j - 1
    ELSE LatestFrame(j - 1)

C6_ExtractionFailureContinues ==
    /\ [][ (extractCalls' # extractCalls /\ extractOk' = extractOk) =>
              /\ pc' = "audio"
              /\ i' = i + 1
              /\ i' <= nSegs
              /\ media_data' = NoResult
              /\ result' = NoOutcome
              /\ current_reference_image' = current_reference_image
              /\ ReferenceFor(i', current_reference_image', disk')
                     = videoRef[i] ]_vars
    /\ [](\A j \in videoCalls :
              (j > 1 /\ (j - 1) \notin extractOk) => videoRef[j] = videoRef[j - 1])

C6_Witness ==
    /\ 2 \in extractCalls /\ 2 \notin extractOk
    /\ 3 \in videoCalls
    /\ videoRef[2] = 1
    /\ videoRef[3] = 1

\* C7: once the audio or video generation of segment s has failed, the chain
\* has returned status error at once: the run is outside the generation loop
\* and no audio, video or frame-extraction call exists for a segment after s,
\* nor a frame extraction for s itself.
C7_FailureAbortsChain ==
    GenerationFailed =>
        /\ pc \notin {"chain_start", "audio", "video", "extract"}
        /\ media_data.seg = i
        /\ audioCalls \subseteq 1 .. media_data.seg
        /\ videoCalls \subseteq 1 .. media_data.seg
        /\ extractCalls \subseteq 1 .. (media_data.seg - 1)
        /\ AudioFailed => videoCalls \subseteq 1 .. (media_data.seg - 1)

C7_Witness ==
    /\ pc = "done"
    /\ VideoFailed /\ media_data.seg = 1
    /\ nSegs >= 2
    /\ audioCalls = {1} /\ videoCalls = {1} /\ extractCalls = {}

\* Files of the assembly stage.
AssemblyFiles == { f \in disk : f[1] \in {"combined", "list", "final"} }

\* C8: a chain that ended in error makes merge_final_video return that very
\* error: no combine command, no copy, no concatenation, nothing of the
\* assembly stage written.
C8_ErrorPassesThroughMerge ==
    media_data.status = "error" =>
        /\ combineCalls = 0 /\ copyCalls = 0 /\ concatCalls = 0
        /\ pc \notin {"combine", "combined", "assemble"}
        /\ AssemblyFiles = {}
        /\ pc \in {"report", "done"} => final_result = media_data

C8_Witness ==
    /\ pc = "done"
    /\ GenerationFailed /\ media_data.seg = 2
    /\ final_result = media_data
    /\ { << "video", 1 >>, << "audio", 1 >> } \subseteq disk

\* Combined clips that exist, by number.
CombinedOnDisk == { f[2] : f \in { g \in disk : g[1] = "combined" } }

\* C9 (as stated): after the generation of segment s failed, combined clips
\* exist exactly for the segments before s and, when there are any, the run
\* ends with a final artifact assembled from them.
C9_PartialAssembly ==
    (GenerationFailed /\ pc = "done") =>
        /\ CombinedOnDisk = 1 .. (media_data.seg - 1)
        /\ media_data.seg >= 2 => (<< "final", 0 >> \in disk /\ result.success)

\* C9 (amended): after the generation of segment s failed, no combined clip
\* exists for any segment (none for s or later, and none for the segments
\* before s either) and the final assembler produces no artifact: the run ends
\* in failure carrying the generation error.
C9_NoAssemblyAfterFailure ==
    GenerationFailed =>
        /\ CombinedOnDisk = {}
        /\ combined_segments_paths = << >>
        /\ << "final", 0 >> \notin disk
        /\ pc = "done" => (~ result.success /\ result.video_path = "none"
                            /\ result.tag = media_data.message)

C9_Witness ==
    /\ pc = "done"
    /\ VideoFailed /\ media_data.seg = 3
    /\ video_results = << 1, 2 >>
    /\ CombinedOnDisk = {}
    /\ ~ result.success

\* The merge has left its combine loop (or never entered it).
AfterLoop == pc \in {"assemble", "report", "done", "responded"}

\* The merge entered its combine loop.
InLoop == Len(valid_video_segments) > 0
            /\ Len(valid_video_segments) = Len(valid_audio_segments)
            /\ media_data.status = "success"

\* C10: a failed combine step (non-zero exit, no output file, timeout,
\* exception) only leaves its segment out: the loop still runs one combine
\* step for every pair, the list holds exactly the clips that were written,
\* and with at least one of them the assembly step runs and, unless that step
\* itself fails, the run reports the final artifact with their count.
C10_CombineFailureIsLocal ==
    /\ (last.outcome \notin {"none", "ok"}) =>
          /\ last.path \notin Range(combined_segments_paths)
          /\ pc \in {"combined", "assemble", "report", "done", "responded"}
          /\ pc = "combined" => final_result = NoFinal
    /\ (InLoop /\ AfterLoop) =>
          /\ combineCalls = Len(valid_video_segments)
          /\ Range(combined_segments_paths) = CombinedOnDisk
    /\ (InLoop /\ pc \in {"report", "done", "responded"}
        /\ combined_segments_paths # << >>) =>
          /\ copyCalls + concatCalls = 1
          /\ \/ /\ final_result.status = "success"
                /\ final_result.segments_merged = Len(combined_segments_paths)
                /\ << "final", 0 >> \in disk
                /\ pc \in {"done", "responded"} => result.success
             \/ /\ final_result.status = "error"
                /\ final_result.message \in {"concat_failed", "merging_failed"}

C10_Witness ==
    /\ pc = "done"
    /\ result.success
    /\ combineCalls = 3
    /\ combined_segments_paths = << 1, 3 >>
    /\ final_result.segments_merged = 2

\* Segments whose video file and audio file are both on disk.
Intact == { j \in 1 .. nSegs : << "video", j >> \in disk /\ << "audio", j >> \in disk }

\* C11: when the video file or the audio file of exactly one generated segment
\* is missing as merge_final_video runs, the merge is not aborted: it runs one
\* combine step for each of the other segments, pairing every video with the
\* audio of its own segment, and only the segment with the missing file is
\* left out.
C11_MissingFileIsLocal ==
    (media_data.status = "success" /\ lost >= 1
        /\ Cardinality(Intact) = nSegs - 1 /\ nSegs >= 2) =>
        /\ final_result.message # "mismatch"
        /\ AfterLoop => combineCalls = nSegs - 1
        /\ last.outcome # "none" => (last.video = last.audio /\ last.video \in Intact)

\* A command was built for the current pair without both real durations:
\* ffprobe absent, a probe exiting non-zero (0 sentinel), or a probe raising.
Unmeasured == last.cmd.branch # "none" /\ ~ BothMeasured

\* C12: a segment whose durations could not be measured is not failed: a
\* command is still built and run for it, and that command is the direct mux
\* (video stream copied, -shortest, no -stream_loop, no -t), never the
\* loop/stretch one, so a clip written lasts as long as the shorter stream.
C12_UnmeasuredFallsBackToShortest ==
    Unmeasured =>
        /\ last.cmd.branch \in {"no_ffprobe", "fallback", "standard"}
        /\ last.cmd = DefaultCmd(last.cmd.branch)
        /\ last.cmd.shortest /\ last.cmd.loop = 0 /\ last.cmd.t = 0
        /\ last.outcome # "none"
        /\ final_result.status # "error" \/ pc \in {"report", "done", "responded"}
        /\ Combined => (last.dur = Min(last.vd, last.ad)
                         /\ last.path \in Range(combined_segments_paths))

C12_Witness ==
    /\ Combined
    /\ last.audio_duration = 0 /\ last.video_duration = last.vd
    /\ last.ad > last.vd
    /\ last.cmd.branch = "standard"
    /\ last.dur = last.vd

\* merge_final_video has returned for a chain that succeeded.
MergeReturned == media_data.status = "success" /\ pc \in {"report", "done", "responded"}

\* C13: when merge_final_video returns with zero combined segments (no valid
\* media at all, or every combine step failed) its result is status error,
\* and no copy and no concatenation was made: no list file, no final output.
C13_NothingCombinedIsError ==
    (MergeReturned /\ combined_segments_paths = << >>) =>
        /\ final_result.status = "error"
        /\ final_result.message \in {"no_valid_media", "mismatch", "none_combined"}
        /\ (valid_video_segments = << >> /\ valid_audio_segments = << >>)
              => final_result.message = "no_valid_media"
        /\ InLoop => final_result.message = "none_combined"
        /\ copyCalls = 0 /\ concatCalls = 0
        /\ video_list = << >>
        /\ AssemblyFiles = {}
        /\ pc = "done" => (~ result.success /\ result.video_path = "none")

C13_Witness ==
    /\ pc = "done"
    /\ InLoop
    /\ combineCalls = 3
    /\ combined_segments_paths = << >>
    /\ final_result.message = "none_combined"
    /\ ~ result.success

\* C14: when exactly one segment combined, the final output is made by one
\* copy of that clip: the concatenation step is never invoked, no list file
\* is written, and the result reports one merged segment.
C14_SingleSegmentIsCopied ==
    (MergeReturned /\ Len(combined_segments_paths) = 1) =>
        /\ copyCalls = 1
        /\ concatCalls = 0
        /\ video_list = << >>
        /\ << "list", 0 >> \notin disk
        /\ \/ /\ final_result.status = "success"
              /\ final_result.segments_merged = 1
              /\ << "final", 0 >> \in disk
           \/ /\ final_result.status = "error"
              /\ final_result.message = "merging_failed"
              /\ << "final", 0 >> \notin disk

C14_Witness ==
    /\ pc = "done"
    /\ result.success
    /\ combineCalls = 3
    /\ combined_segments_paths = << 2 >>
    /\ copyCalls = 1 /\ concatCalls = 0
    /\ << "final", 0 >> \in disk

\* The original segment numbers of the videos inside the listed clips.
ListedSegments == [x \in 1 .. Len(video_list) |-> valid_video_segments[video_list[x]]]

Ascending(list) == \A x, y \in 1 .. Len(list) : x < y => list[x] < list[y]

\* C15: when more than one segment combined, the list handed to the
\* concatenation step holds exactly the clips that were written, each once,
\* in ascending order of clip number and of original segment number; the clip
\* of a failed combine step is not in it.
C15_ConcatListInOrder ==
    (MergeReturned /\ Len(combined_segments_paths) > 1) =>
        /\ concatCalls = 1 /\ copyCalls = 0
        /\ video_list = combined_segments_paths
        /\ Range(video_list) = CombinedOnDisk
        /\ Cardinality(Range(video_list)) = Len(video_list)
        /\ Ascending(video_list)
        /\ Ascending(ListedSegments)
        /\ (last.outcome \notin {"none", "ok"}) => last.path \notin Range(video_list)

C15_Witness ==
    /\ pc = "done"
    /\ result.success
    /\ combineCalls = 3
    /\ video_list = << 1, 3 >>
    /\ CombinedOnDisk = {1, 3}

\* C16: when the concatenation step errors (non-zero exit, or an exception
\* such as its timeout), merge_final_video returns status error and never
\* success, no final output is written, and every combined clip made by the
\* loop is still on disk.
C16_ConcatFailureIsError ==
    (MergeReturned /\ concatCalls = 1 /\ << "final", 0 >> \notin disk) =>
        /\ final_result.status = "error"
        /\ final_result.message \in {"concat_failed", "merging_failed"}
        /\ Range(combined_segments_paths) \subseteq CombinedOnDisk
        /\ Len(combined_segments_paths) >= 2
        /\ pc = "done" => (~ result.success /\ result.tag = final_result.message)

C16_Witness ==
    /\ pc = "done"
    /\ concatCalls = 1
    /\ final_result.message = "concat_failed"
    /\ CombinedOnDisk = {1, 2, 3}
    /\ << "final", 0 >> \notin disk
    /\ ~ result.success

\* The chain returned because a generation collaborator could not be imported.
CollaboratorUnavailable ==
    /\ media_data.status = "error"
    /\ media_data.message \in {"no_video_generation", "no_voice_cloning"}

\* C17: with the video-generation or the voice-cloning collaborator
\* unavailable the chain returns its error before the first segment: no audio
\* generation, video generation or frame extraction call is made for any
\* segment, no file is written, and the run ends in failure with that error.
C17_UnavailableAbortsBeforeSegments ==
    CollaboratorUnavailable =>
        /\ pc \notin {"chain_start", "audio", "video", "extract"}
        /\ audioCalls = {} /\ videoCalls = {} /\ extractCalls = {}
        /\ audio_results = << >> /\ video_results = << >>
        /\ disk = {}
        /\ pc = "done" => (~ result.success /\ result.tag = media_data.message)

C17_Witness ==
    /\ pc = "done"
    /\ nSegs = 3
    /\ research_data.status = "success"
    /\ media_data = ErrorResult("no_voice_cloning", 0)
    /\ audioCalls = {} /\ videoCalls = {}
    /\ ~ result.success

\* C18: every path a run writes carries its session id, so no path is
\* written by two runs with different session ids.
C18_PathsNamespacedByRun ==
    \A a, b \in disk : a[1] = b[1] => a[2] = b[2]

\* The files behind everything the run has recorded as produced.
Produced ==
    { << "audio", j >> : j \in Range(audio_results) }
        \cup { << "video", j >> : j \in Range(video_results) }
        \cup { << "frame", j >> : j \in extractOk }
        \cup { << "combined", j >> : j \in Range(combined_segments_paths) }

\* C19: no step of the run (generation, frame extraction, combine, assembly,
\* completion reporting) removes a file: the directory only grows under the
\* run's own steps, so at whatever point the run aborts every audio, video,
\* frame and combined file it produced is still on disk.
C19_NoArtifactDeleted ==
    /\ [][ lost' = lost => disk \subseteq disk' ]_vars
    /\ [](lost = 0 => Produced \subseteq disk)

C19_Witness ==
    /\ pc = "done"
    /\ VideoFailed /\ media_data.seg = 3
    /\ ~ result.success
    /\ extractOk = {1, 2}
    /\ { << "audio", 1 >>, << "video", 1 >>, << "frame", 1 >>,
         << "audio", 2 >>, << "video", 2 >>, << "frame", 2 >>,
         << "audio", 3 >> } \subseteq disk

\* C20: when the chain aborted at segment s, every artifact produced for a
\* segment before s is among the files the handler collects for the failed
\* session (the failure result itself carries a message and no paths).
C20_IntermediateArtifactsReported ==
    (GenerationFailed /\ pc = "responded") =>
        \A f \in Produced : f[2] < media_data.seg => f \in generated_files

\* What handle_pipeline_completion makes of the result merge_final_video returned.
Completion == handle_pipeline_completion(final_result)

\* C21: handle_pipeline_completion maps a success result to status completed
\* with the same final video path and the same merged-segment count, and any
\* other result to status error with that result's message and a retry
\* suggestion; the result it was given is left as it was, and process_request
\* reports exactly this mapping.
C21_CompletionMapping ==
    /\ [](final_result.status = "success" =>
            /\ Completion.status = "completed"
            /\ Completion.final_video = final_result.final_video_path
            /\ Completion.segments_merged = final_result.segments_merged
            /\ Completion.segments_merged = Len(combined_segments_paths))
    /\ [](final_result.status = "error" =>
            /\ Completion.status = "error"
            /\ Completion.message = final_result.message
            /\ Completion.suggestion = "check_inputs")
    /\ [][ pc = "report" =>
              /\ final_result' = final_result
              /\ result'.success = (Completion.status = "completed")
              /\ result'.video_path = Completion.final_video
              /\ result'.tag = Completion.message ]_vars

C21_Witness ==
    /\ pc = "done"
    /\ final_result.status = "success"
    /\ final_result.segments_merged = 2
    /\ Completion.segments_merged = 2
    /\ result.success
    /\ result.video_path = "final_neomentor_video"

\* process_request has returned to its caller.
Returned == pc \in {"done", "responded"}

\* C22: whatever way process_request ends (missing uploads, missing files, a
\* stage error, an exception, success) it returns a result with a success
\* flag and a message; a failure result carries a suggestion and no video, a
\* success result carries the final video.
C22_StructuredResult ==
    /\ Returned =>
          /\ result.tag # "none"
          /\ result.success => (result.video_path # "none"
                                 /\ final_result.status = "success")
          /\ ~ result.success => (result.suggestion \in
                                      {"upload_both", "re_upload", "check_inputs"}
                                   /\ result.video_path = "none")
          /\ result.tag = "missing_uploads" => result.suggestion = "upload_both"
          /\ result.tag \in {"image_not_found", "audio_not_found"}
                => result.suggestion = "re_upload"
    /\ ~ Returned => result = NoOutcome

C22_Witness ==
    /\ pc = "done"
    /\ ~ result.success
    /\ result.tag = "merging_failed"
    /\ result.suggestion = "check_inputs"
    /\ combineCalls = 2

\* C23: the stretch command loops the video floor(audio_duration /
\* video_duration) + 1 times, and that many copies of the video are at least
\* as long as the audio, so the trim to audio_duration never runs out of video.
C23_LoopCoversAudio ==
    last.cmd.branch = "stretch" =>
        /\ last.audio_duration > last.video_duration /\ last.video_duration > 0
        /\ last.cmd.loop = (last.audio_duration \div last.video_duration) + 1
        /\ last.cmd.loop * last.video_duration >= last.audio_duration
        /\ (last.cmd.loop - 1) * last.video_duration <= last.audio_duration

C23_Witness ==
    /\ last.cmd.branch = "stretch"
    /\ last.audio_duration = 3 /\ last.video_duration = 2
    /\ last.cmd.loop = 2
    /\ last.cmd.loop * last.video_duration = 4

\* wait_for_completion has returned or raised.
WaitTerminal == wait_pc \in {"returned", "raised_failed", "raised_timeout",
                             "raised_status"}

\* Every response before the last one said the operation was still running.
EarlierPending == \A x \in 1 .. (Len(responses) - 1) : responses[x] = "pending"

\* C24: wait_for_completion always ends; it returns on the first response
\* with done, raises on the first FAILED one, and raises the timeout only
\* after max_wait_time has elapsed with every response still pending; every
\* status request starts before the deadline, so their number is bounded by
\* max_wait_time and check_interval.
C24_BoundedPolling ==
    /\ [](wait_pc = "returned" =>
            (responses # << >> /\ responses[Len(responses)] = "done" /\ EarlierPending))
    /\ [](wait_pc = "raised_failed" =>
            (responses # << >> /\ responses[Len(responses)] = "failed" /\ EarlierPending))
    /\ [](wait_pc = "raised_timeout" =>
            (elapsed >= max_wait_time
               /\ \A x \in DOMAIN responses : responses[x] = "pending"))
    /\ [](\A x \in DOMAIN poll_started_at : poll_started_at[x] < max_wait_time)
    /\ []((Len(poll_started_at) - 1) * check_interval < max_wait_time)
    /\ <>WaitTerminal

C24_Witness ==
    /\ wait_pc = "raised_timeout"
    /\ max_wait_time = 4 /\ check_interval = 2
    /\ Len(poll_started_at) = 2
    /\ responses = << "pending", "pending" >>

\* C25: every combined clip is made of the video and the audio of one and the
\* same original segment, whichever segment files are missing from disk when
\* the merge runs.
C25_SameSegmentPaired ==
    Combined => last.video = last.audio

\* The formatter or the research stage answered with status error.
EarlyError == research_data.status = "error"

\* C26: an error of the formatter or research stage passes through the later
\* stages unchanged: the chain returns it without any audio-generation,
\* video-generation or frame-extraction call, the merge returns it without
\* combining anything, and the run reports failure with that error's message.
C26_EarlyErrorShortCircuits ==
    EarlyError =>
        /\ pc \in {"chain_start", "merge_start", "report", "done", "responded"}
        /\ pc # "chain_start" => media_data = research_data
        /\ pc \in {"report", "done", "responded"} => final_result = research_data
        /\ audioCalls = {} /\ videoCalls = {} /\ extractCalls = {}
        /\ combineCalls = 0 /\ copyCalls = 0 /\ concatCalls = 0
        /\ { f \in disk : f[1] # "served" } = {}
        /\ Returned => (~ result.success /\ result.tag = research_data.message
                          /\ result.suggestion = "check_inputs")

C26_Witness ==
    /\ pc = "done"
    /\ research_data = ErrorResult("topic_required", 0)
    /\ final_result = research_data
    /\ result.tag = "topic_required"
    /\ audioCalls = {} /\ videoCalls = {}

\* The list << 1, ..., n >>.
FirstSegments(n) == [x \in 1 .. n |-> x]

\* C27: inside the chain the audio list is as long as the video list or one
\* longer, both lists hold the first segments in order without gaps, and the
\* chain returns status success only with one audio and one video recorded
\* for every script segment.
C27_ResultCountsInStep ==
    /\ Len(audio_results) - Len(video_results) \in {0, 1}
    /\ audio_results = FirstSegments(Len(audio_results))
    /\ video_results = FirstSegments(Len(video_results))
    /\ pc = "audio" => (Len(audio_results) = i - 1 /\ Len(video_results) = i - 1)
    /\ pc = "video" => (Len(audio_results) = i /\ Len(video_results) = i - 1)
    /\ pc = "extract" => (Len(audio_results) = i /\ Len(video_results) = i)
    /\ media_data.status = "success" =>
          (Len(audio_results) = nSegs /\ Len(video_results) = nSegs)
    /\ GenerationFailed =>
          (Len(video_results) = media_data.seg - 1 /\ Len(video_results) < nSegs)

C27_Witness ==
    /\ pc = "video"
    /\ i = 3
    /\ audio_results = << 1, 2, 3 >>
    /\ video_results = << 1, 2 >>

\* C28: under any interleaving of two runs with different session ids, the
\* video copied to neomentor_video_<session_id>.mp4 and returned to a session
\* is assembled only from clips generated for that same session.
C28_DeliveredFromOwnRun ==
    \A r \in Runs : pc[r] = "done" => result[r] = r

\* C29: a websocket registered for a session id keeps its entry in
\* active_connections until that same websocket disconnects or a send to it
\* fails (an older connection's disconnect never removes a newer connection's
\* entry), and send_log to an unregistered session id changes nothing.
C29_EntryKeptUntilOwnDisconnect ==
    [][ /\ \A s \in Runs, w \in Sockets :
              (active_connections[s] = w /\ active_connections'[s] = NoSocket)
                  => \/ ws_pc[w] = "receiving" /\ ws_pc'[w] = "closed"
                     \/ sending.ws = w /\ sending' = NoSend
        /\ \A s \in Runs :
              (active_connections[s] = NoSocket /\ sending = NoSend
                   /\ sends_done' = sends_done + 1)
                  => active_connections' = active_connections ]_vars

\* The collaborator calls of a run, against the bound frames on extractions.
Budget(frames) ==
    /\ Cardinality(audioCalls) <= nSegs
    /\ Cardinality(videoCalls) <= nSegs
    /\ Cardinality(extractCalls) <= frames
    /\ combineCalls <= nSegs
    /\ concatCalls <= 1

\* C30 as stated: when every collaborator call returns or raises, a run of
\* process_request over N segments reaches a terminal result (success or
\* error), and it never issues more than N audio generations, N video
\* generations, N - 1 frame extractions, N combine steps, one concatenation.
C30_BudgetAsStated == []Budget(nSegs - 1) /\ <>Returned

\* C30: when every collaborator call returns or raises, a run of
\* process_request over N segments reaches a terminal result (success or
\* error), and it never issues more than N audio generations, N video
\* generations, N combine steps, one concatenation, and N - 1 frame
\* extractions for N >= 1, none for N = 0.
C30_TerminatesWithinBudget ==
    []Budget(IF nSegs = 0 THEN 0 ELSE nSegs - 1) /\ <>Returned

\* A run of three segments that used its whole budget and returned.
C30_Witness ==
    /\ pc = "done"
    /\ nSegs = 3
    /\ Cardinality(audioCalls) = 3
    /\ Cardinality(videoCalls) = 3
    /\ Cardinality(extractCalls) = 2
    /\ combineCalls = 3
    /\ concatCalls = 1
====
